---- MODULE Spec2Model ----
(***************************************************************************)
(* Wikipedia quiz generator: the quiz generation / validation functions of *)
(* backend/quiz_generator.py and the HTTP handlers of backend/main.py.     *)
(*                                                                         *)
(* SpecGen applies the functions of quiz_generator.py to bounded sets of   *)
(* model (LLM) outcomes.  Spec runs the handlers of main.py, interleaved   *)
(* at their blocking calls, against one shared record store.               *)
(***************************************************************************)
EXTENDS Integers, Sequences, FiniteSets, TLC

VARIABLES
    genCall,    \* SpecGen, SpecScrape: the function applied and its arguments
    genRet,     \* SpecGen, SpecScrape: what it returned
    store,      \* table quiz_records: the committed rows
    nextId,     \* the table's id sequence
    req,        \* one entry per generate-quiz request: position and locals
    lastResp,   \* the response of the latest get / delete request
    deletedUrls \* urls whose row was deleted at some point

vars == <<genCall, genRet, store, nextId, req, lastResp, deletedUrls>>

Min(a, b) == IF a < b THEN a ELSE b
Max(a, b) == IF a > b THEN a ELSE b

(***************************************************************************)
(* Python values as json.loads produces them.  A text is a sequence of     *)
(* pieces: a whitespace character, or a run of text that neither starts    *)
(* nor ends with whitespace.  JFloat(n) is the float n.0 .                  *)
(***************************************************************************)
JStr(s) == [t |-> "str", s |-> s]
JInt(n) == [t |-> "int", n |-> n]
JFloat(n) == [t |-> "float", f |-> n]
JBool(b) == [t |-> "bool", b |-> b]
JNull == [t |-> "null"]
JList(items) == [t |-> "list", items |-> items]
JDict(d) == [t |-> "dict", d |-> d]

\* int, float and bool compare by numeric value in Python (True == 1 == 1.0).
IsNumber(v) == v.t \in {"int", "float", "bool"}

NumVal(v) ==
    CASE v.t = "int" -> v.n
      [] v.t = "float" -> v.f
      [] v.t = "bool" -> IF v.b THEN 1 ELSE 0

\* a == b
PyEq(a, b) ==
    IF IsNumber(a) /\ IsNumber(b) THEN NumVal(a) = NumVal(b)
    ELSE a.t = b.t /\ a = b

\* x in seq  (list membership compares with ==)
PyIn(x, seq) == \E i \in 1..Len(seq) : PyEq(x, seq[i])

DigitChar(d) ==
    CASE d = 0 -> "0" [] d = 1 -> "1" [] d = 2 -> "2" [] d = 3 -> "3"
      [] d = 4 -> "4" [] d = 5 -> "5" [] d = 6 -> "6" [] d = 7 -> "7"
      [] d = 8 -> "8" [] d = 9 -> "9"

RECURSIVE Digits(_)
Digits(n) ==
    IF n < 10 THEN <<DigitChar(n)>>
    ELSE Digits(n \div 10) \o <<DigitChar(n % 10)>>

IntText(n) == IF n < 0 THEN <<"-">> \o Digits(-n) ELSE Digits(n)

\* str(v) for the scalars; the repr of a list or dict is not modelled and no
\* input puts a container where the code applies str().
PyStr(v) ==
    CASE v.t = "str" -> v.s
      [] v.t = "int" -> IntText(v.n)
      [] v.t = "float" -> IntText(v.f) \o <<".", "0">>
      [] v.t = "bool" -> IF v.b THEN <<"T", "r", "u", "e">>
                         ELSE <<"F", "a", "l", "s", "e">>
      [] v.t = "null" -> <<"N", "o", "n", "e">>

IsSpace(c) == c \in {" ", "\n", "\t"}

RECURSIVE LStrip(_)
LStrip(s) ==
    IF s # <<>> /\ IsSpace(Head(s)) THEN LStrip(Tail(s)) ELSE s

RECURSIVE RStrip(_)
RStrip(s) ==
    IF s # <<>> /\ IsSpace(s[Len(s)]) THEN RStrip(SubSeq(s, 1, Len(s) - 1))
    ELSE s

\* str.strip()
Strip(s) == RStrip(LStrip(s))

\* seq[:k]
PySliceTo(seq, k) ==
    IF k >= 0 THEN SubSeq(seq, 1, Min(k, Len(seq)))
    ELSE SubSeq(seq, 1, Max(0, Len(seq) + k))

RECURSIVE SetToSeq(_)
SetToSeq(S) ==
    IF S = {} THEN <<>>
    ELSE LET x == CHOOSE y \in S : TRUE IN <<x>> \o SetToSeq(S \ {x})

\* What a for loop over v visits: the items of a list, the keys of a dict,
\* the characters of a str.  Any other value raises TypeError.
IsIterable(v) == v.t \in {"list", "dict", "str"}

PyIter(v) ==
    CASE v.t = "list" -> v.items
      [] v.t = "dict" ->
            LET ks == SetToSeq(DOMAIN v.d)
            IN  [i \in 1..Len(ks) |-> JStr(<<ks[i]>>)]
      [] v.t = "str" -> [i \in 1..Len(v.s) |-> JStr(<<v.s[i]>>)]

\* A call either returns a value or raises.
Return(v) == [exc |-> "none", val |-> v]
Raise(e) == [exc |-> e]

(***************************************************************************)
(* quiz_generator.py                                                       *)
(***************************************************************************)

\* The text of a model response: an optional markdown fence around a body
\* that either is the JSON encoding of a value or is no JSON at all.
Text(fence, body) == [fence |-> fence, body |-> body]
Json(v) == [json |-> TRUE, value |-> v]
Garbage == [json |-> FALSE]

\* re.sub of the two fence patterns
StripFences(text) == [text EXCEPT !.fence = "none"]

\* json.loads: a fence left in the text is no JSON
JsonLoads(text) ==
    IF text.fence = "none" /\ text.body.json THEN Return(text.body.value)
    ELSE Raise("JSONDecodeError")

parse_json_safely(text) ==
    LET r == JsonLoads(StripFences(text))
    IN  IF r.exc = "JSONDecodeError" THEN JList(<<>>) ELSE r.val

RequiredFields == {"question", "options", "answer", "explanation"}

DifficultyLevels == <<JStr(<<"easy">>), JStr(<<"medium">>), JStr(<<"hard">>)>>

\* the four checks of the loop body that do not `continue`
IsWellFormed(q) ==
    /\ q.t = "dict"
    /\ RequiredFields \subseteq DOMAIN q.d
    /\ q.d.options.t = "list"
    /\ Len(q.d.options.items) = 4
    /\ PyIn(q.d.answer, q.d.options.items)

Difficulty(q) ==
    LET difficulty == IF "difficulty" \in DOMAIN q.d THEN q.d.difficulty
                      ELSE JStr(<<"medium">>)
    IN  IF PyIn(difficulty, DifficultyLevels) THEN difficulty
        ELSE JStr(<<"medium">>)

\* the dict appended to `validated`
Cleaned(q) ==
    JDict([question |-> JStr(Strip(PyStr(q.d.question))),
          options |-> JList([i \in 1..Len(q.d.options.items) |->
                              JStr(Strip(PyStr(q.d.options.items[i])))]),
          answer |-> JStr(Strip(PyStr(q.d.answer))),
          difficulty |-> Difficulty(q),
          explanation |-> JStr(Strip(PyStr(q.d.explanation)))])

RECURSIVE ValidateLoop(_)
ValidateLoop(items) ==
    IF items = <<>> THEN <<>>
    ELSE IF IsWellFormed(Head(items))
         THEN <<Cleaned(Head(items))>> \o ValidateLoop(Tail(items))
         ELSE ValidateLoop(Tail(items))

validate_quiz_questions(questions) ==
    IF IsIterable(questions) THEN Return(ValidateLoop(PyIter(questions)))
    ELSE Raise("TypeError")

generate_fallback_quiz ==
    << JDict([question |-> JStr(<<"What is the primary subject of this article?">>),
             options |-> JList(<<JStr(<<"History">>), JStr(<<"Science">>),
                                JStr(<<"Biography">>), JStr(<<"Technology">>)>>),
             answer |-> JStr(<<"Biography">>),
             difficulty |-> JStr(<<"easy">>),
             explanation |-> JStr(<<"This is a default fallback question. Please regenerate.">>)]) >>

MaxQuestions == 10
MinQuestions == 5
DefaultQuestions == 7
MaxTopics == 7
PadCeiling == 10

\* PadLoop with `if` in place of `while`: pads once
PadLoop_once(validated, num_questions) ==
    IF Len(validated) < num_questions /\ Len(validated) < PadCeiling
    THEN validated \o PySliceTo(generate_fallback_quiz,
                                num_questions - Len(validated))
    ELSE validated

\* the while loop of generate_quiz_questions
RECURSIVE PadLoop(_, _)
PadLoop(validated, num_questions) ==
    IF Len(validated) < num_questions /\ Len(validated) < PadCeiling
    THEN PadLoop(validated \o PySliceTo(generate_fallback_quiz,
                                        num_questions - Len(validated)),
                 num_questions)
    ELSE validated

\* A model call: llm.invoke raises, or returns a text.
Failed == [ok |-> FALSE]
Answered(text) == [ok |-> TRUE, text |-> text]

\* generate_quiz_questions whose except clause returns [] instead of the fallback
generate_quiz_questions_emptyOnError(llm, num_questions) ==
    IF ~llm.ok THEN Return(<<>>)
    ELSE LET quiz_questions == parse_json_safely(llm.text)
             validated == validate_quiz_questions(quiz_questions)
         IN  IF validated.exc # "none" THEN Return(<<>>)
             ELSE Return(PySliceTo(PadLoop(validated.val, num_questions),
                                   num_questions))

generate_quiz_questions(llm, num_questions) ==
    IF ~llm.ok THEN Return(generate_fallback_quiz)
    ELSE LET quiz_questions == parse_json_safely(llm.text)
             validated == validate_quiz_questions(quiz_questions)
         IN  IF validated.exc # "none" THEN Return(generate_fallback_quiz)
             ELSE Return(PySliceTo(PadLoop(validated.val, num_questions),
                                   num_questions))

FallbackTopics == <<JStr(<<"Further Reading">>), JStr(<<"Related Articles">>)>>

RECURSIVE StripTopics(_)
StripTopics(topics) ==
    IF topics = <<>> THEN <<>>
    ELSE LET s == Strip(Head(topics).s)
         IN  (IF s # <<>> THEN <<JStr(s)>> ELSE <<>>) \o StripTopics(Tail(topics))

\* generate_related_topics that cuts to 7 before it drops the empty strings
generate_related_topics_cutFirst(llm) ==
    IF ~llm.ok THEN Return(FallbackTopics)
    ELSE LET topics == parse_json_safely(llm.text)
         IN  IF /\ topics.t = "list"
                /\ \A i \in 1..Len(topics.items) : topics.items[i].t = "str"
             THEN Return(StripTopics(PySliceTo(topics.items, MaxTopics)))
             ELSE Return(FallbackTopics)

generate_related_topics(llm) ==
    IF ~llm.ok THEN Return(FallbackTopics)
    ELSE LET topics == parse_json_safely(llm.text)
         IN  IF /\ topics.t = "list"
                /\ \A i \in 1..Len(topics.items) : topics.items[i].t = "str"
             THEN Return(PySliceTo(StripTopics(topics.items), MaxTopics))
             ELSE Return(FallbackTopics)

\* generate_quiz_with_llm without the clamp of num_questions
generate_quiz_with_llm_noclamp(quiz_llm, topics_llm, num_questions) ==
    LET quiz_questions == generate_quiz_questions(quiz_llm, num_questions)
        related_topics == generate_related_topics(topics_llm)
    IN  IF quiz_questions.exc # "none" \/ related_topics.exc # "none"
        THEN Return([quiz |-> generate_fallback_quiz,
                     related_topics |-> <<JStr(<<"General Knowledge">>),
                                          JStr(<<"Further Reading">>)>>])
        ELSE Return([quiz |-> quiz_questions.val,
                     related_topics |-> related_topics.val])

generate_quiz_with_llm(quiz_llm, topics_llm, num_questions) ==
    LET n == Max(MinQuestions, Min(MaxQuestions, num_questions))
        quiz_questions == generate_quiz_questions(quiz_llm, n)
        related_topics == generate_related_topics(topics_llm)
    IN  IF quiz_questions.exc # "none" \/ related_topics.exc # "none"
        THEN Return([quiz |-> generate_fallback_quiz,
                     related_topics |-> <<JStr(<<"General Knowledge">>),
                                          JStr(<<"Further Reading">>)>>])
        ELSE Return([quiz |-> quiz_questions.val,
                     related_topics |-> related_topics.val])

\* Before any function of quiz_generator.py is applied.
NoCall == [op |-> "none"]

GenInit ==
    /\ genCall = NoCall
    /\ genRet = Return(<<>>)

(***************************************************************************)
(* scraper.py: scrape_wikipedia, as far as the handlers of main.py see it. *)
(***************************************************************************)

RaiseMsg(e, msg) == [exc |-> e, msg |-> msg]

\* What requests.get and the parser meet: a transport error, a non-success
\* status (raise_for_status), markup the parser fails on, or a page.
Fetches(url) ==
    {[kind |-> "ConnectionError"], [kind |-> "HTTPError"],
     [kind |-> "ParseError"], [kind |-> "page", url |-> url]}

\* the dict scrape_wikipedia returns for a page
Scraped(page) ==
    [title |-> <<"Title of ", page.url[2]>>,
     summary |-> <<"Summary of ", page.url[2]>>,
     sections |-> <<"History">>,
     content |-> <<"Title: ", page.url[2]>>,
     key_entities |-> [people |-> <<>>, organizations |-> <<>>, locations |-> <<>>],
     raw_html |-> <<"<html>", page.url[2]>>]

\* scrape_wikipedia that returns an empty page where the code raises
scrape_wikipedia_swallow(fetch) ==
    IF fetch.kind = "page" THEN Return(Scraped(fetch))
    ELSE Return(Scraped([url |-> <<"", "Unknown">>]))

scrape_wikipedia(fetch) ==
    CASE fetch.kind \in {"ConnectionError", "HTTPError"} ->
            RaiseMsg("Exception", <<"Failed to fetch URL: ", fetch.kind>>)
      [] fetch.kind = "ParseError" ->
            RaiseMsg("Exception", <<"Error processing Wikipedia page: ", fetch.kind>>)
      [] fetch.kind = "page" -> Return(Scraped(fetch))

(***************************************************************************)
(* main.py                                                                 *)
(***************************************************************************)

NumRequests == 2    \* generate-quiz requests in flight

Requests == 1..NumRequests
QuizIds == 1..NumRequests

WikiPrefix == "https://en.wikipedia.org/wiki/"

\* generate_quiz is a coroutine that never awaits, so one event loop runs one
\* call of it at a time; the workers of a deployment (uvicorn --workers, several
\* instances) share only the database, and requests served by different workers
\* interleave at the handler's blocking calls: the cache query, the fetch, the
\* model calls and the commit.  Each entry of req is such a request.

\* A url is a sequence of pieces; the first holds its first 30 characters.
ValidUrls == {<<WikiPrefix, "A">>, <<WikiPrefix, "B">>}
InvalidUrls == {<<"https://de.wikipedia.org/wiki/", "A">>}
Urls == ValidUrls \cup InvalidUrls

\* str.startswith
StartsWith(url, prefix) == Len(url) >= 1 /\ url[1] = prefix

None == [none |-> TRUE]

HTTPException(status_code, detail) ==
    [exc |-> "HTTPException", status_code |-> status_code, detail |-> detail]

\* str(e).  A plain Exception prints its message.  HTTPException prints
\* "<status>: <detail>" in current Starlette and "" in releases whose
\* constructor passes no args to Exception: either build is possible.
StrOfException(e) ==
    IF e.exc = "HTTPException"
    THEN {IntText(e.status_code) \o <<": ">> \o e.detail, <<>>}
    ELSE {e.msg}

\* what the client receives when a handler raises HTTPException
ErrorResponse(e) == [status |-> e.status_code, detail |-> e.detail]

\* QuizResponse(**record.__dict__), sent with status 200
QuizResponse(record) ==
    [status |-> 200,
     body |-> [id |-> record.id, url |-> record.url, title |-> record.title,
               summary |-> record.summary, key_entities |-> record.key_entities,
               sections |-> record.sections, quiz |-> record.quiz,
               related_topics |-> record.related_topics]]

\* db.query(QuizRecord).filter(...).first()
FirstByUrl(url) ==
    IF \E rec \in store : rec.url = url
    THEN CHOOSE rec \in store : rec.url = url
    ELSE None

FirstById(quiz_id) ==
    IF \E rec \in store : rec.id = quiz_id
    THEN CHOOSE rec \in store : rec.id = quiz_id
    ELSE None

IdleRequest ==
    [pc |-> "idle", url |-> <<>>, existing |-> None, fetch |-> None,
     scraped |-> None, quiz_data |-> None, scrape_calls |-> 0, llm_calls |-> 0,
     resp |-> None]

\* The model outcomes the handlers are run against.
ApiQuizOutcomes ==
    {Failed,
     Answered(Text("none", Json(JList(<<
        JDict([question |-> JStr(<<"Q", "1">>),
               options |-> JList(<<JStr(<<"A">>), JStr(<<"B">>), JStr(<<"C">>), JStr(<<"D">>)>>),
               answer |-> JStr(<<"B">>),
               difficulty |-> JStr(<<"hard">>),
               explanation |-> JStr(<<"E", "1">>)])>>))))}

ApiTopicOutcomes ==
    {Failed, Answered(Text("none", Json(JList(<<JStr(<<"T", "1">>)>>))))}

\* The (quiz call, topics call) pairs a request meets: each call fails in one
\* pair and answers in the other.
ApiModelOutcomes ==
    {<<q, t>> \in ApiQuizOutcomes \X ApiTopicOutcomes : q.ok # t.ok}

ApiInit ==
    /\ store = {}
    /\ nextId = 1
    /\ req = [r \in Requests |-> IdleRequest]
    /\ lastResp = [op |-> "none"]
    /\ deletedUrls = {}

genVars == <<genCall, genRet>>

\* GeneratePrecheck without the cache lookup: every valid URL is scraped
\* (the URL test of lines 102-105 is kept as the code has it).
GeneratePrecheck_nocache(r) ==
    /\ req[r].pc = "idle"
    /\ \E url \in Urls :
        IF ~StartsWith(url, WikiPrefix)
        THEN \E d \in StrOfException(HTTPException(400, <<"Invalid Wikipedia URL">>)) :
                req' = [req EXCEPT ![r].pc = "done", ![r].url = url,
                           ![r].resp = ErrorResponse(HTTPException(500, d))]
        ELSE req' = [req EXCEPT ![r].pc = "scrape", ![r].url = url,
                        ![r].existing = None]
    /\ UNCHANGED <<store, nextId, lastResp, deletedUrls, genVars>>

\* generate_quiz, lines 100-111: the URL test and the cache lookup.  The
\* HTTPException(400) is raised inside the try block, whose `except Exception`
\* catches it, rolls back and raises HTTPException(500, str(e)).
GeneratePrecheck(r) ==
    /\ req[r].pc = "idle"
    /\ \E url \in Urls :
        IF ~StartsWith(url, WikiPrefix)
        THEN \E d \in StrOfException(HTTPException(400, <<"Invalid Wikipedia URL">>)) :
                req' = [req EXCEPT ![r].pc = "done", ![r].url = url,
                           ![r].resp = ErrorResponse(HTTPException(500, d))]
        ELSE LET existing == FirstByUrl(url)
             IN  IF existing # None
                 THEN req' = [req EXCEPT ![r].pc = "done", ![r].url = url,
                                 ![r].existing = existing,
                                 ![r].resp = QuizResponse(existing)]
                 ELSE req' = [req EXCEPT ![r].pc = "scrape", ![r].url = url,
                                 ![r].existing = existing]
    /\ UNCHANGED <<store, nextId, lastResp, deletedUrls, genVars>>

\* generate_quiz, line 116: scrape_wikipedia; a raise goes to the except
\* clause (rollback of a session that holds nothing, then 500).
GenerateScrape(r) ==
    /\ req[r].pc = "scrape"
    /\ \E fetch \in Fetches(req[r].url) :
        LET scraped_data == scrape_wikipedia(fetch)
        IN  IF scraped_data.exc # "none"
            THEN \E d \in StrOfException(scraped_data) :
                    req' = [req EXCEPT ![r].pc = "done", ![r].fetch = fetch,
                               ![r].scrape_calls = @ + 1,
                               ![r].resp = ErrorResponse(HTTPException(500, d))]
            ELSE req' = [req EXCEPT ![r].pc = "llm", ![r].fetch = fetch,
                            ![r].scrape_calls = @ + 1,
                            ![r].scraped = scraped_data.val]
    /\ UNCHANGED <<store, nextId, lastResp, deletedUrls, genVars>>

\* generate_quiz, lines 119-123: generate_quiz_with_llm with the default
\* num_questions; it invokes the model twice (quiz, topics).
GenerateLlm(r) ==
    /\ req[r].pc = "llm"
    /\ \E llm \in ApiModelOutcomes :
        LET quiz_data == generate_quiz_with_llm(llm[1], llm[2], DefaultQuestions)
        IN  IF quiz_data.exc # "none"
            THEN req' = [req EXCEPT ![r].pc = "done", ![r].llm_calls = @ + 2,
                            ![r].resp = ErrorResponse(HTTPException(500, <<quiz_data.exc>>))]
            ELSE req' = [req EXCEPT ![r].pc = "commit", ![r].llm_calls = @ + 2,
                            ![r].quiz_data = quiz_data.val]
    /\ UNCHANGED <<store, nextId, lastResp, deletedUrls, genVars>>

\* generate_quiz, lines 126-141: insert and commit.  Column url is unique: a
\* second row with the url raises IntegrityError, which the except clause
\* turns into a rollback and a 500.  The sequence value is consumed either way.
GenerateCommit(r) ==
    /\ req[r].pc = "commit"
    /\ LET db_record ==
            [id |-> nextId, url |-> req[r].url,
             title |-> req[r].scraped.title, summary |-> req[r].scraped.summary,
             key_entities |-> req[r].scraped.key_entities,
             sections |-> req[r].scraped.sections,
             quiz |-> req[r].quiz_data.quiz,
             related_topics |-> req[r].quiz_data.related_topics,
             raw_html |-> req[r].scraped.raw_html]
       IN  IF \E rec \in store : rec.url = db_record.url
           THEN /\ store' = store
                /\ req' = [req EXCEPT ![r].pc = "done",
                              ![r].resp = ErrorResponse(HTTPException(500,
                                  <<"IntegrityError: ", "duplicate key value violates unique constraint">>))]
           ELSE /\ store' = store \cup {db_record}
                /\ req' = [req EXCEPT ![r].pc = "done",
                              ![r].resp = QuizResponse(db_record)]
    /\ nextId' = nextId + 1
    /\ UNCHANGED <<lastResp, deletedUrls, genVars>>

\* get_quiz_details: one query.  The HTTPException(404) is raised inside the
\* try block and caught by its `except Exception`, which raises a 500.
GetQuizDetails(quiz_id) ==
    /\ LET record == FirstById(quiz_id)
       IN  IF record = None
           THEN \E d \in StrOfException(HTTPException(404, <<"Quiz not found">>)) :
                   lastResp' = [op |-> "get_quiz_details", quiz_id |-> quiz_id,
                                record |-> record,
                                resp |-> ErrorResponse(HTTPException(500, d))]
           ELSE lastResp' = [op |-> "get_quiz_details", quiz_id |-> quiz_id,
                             record |-> record, resp |-> QuizResponse(record)]
    /\ UNCHANGED <<store, nextId, req, deletedUrls, genVars>>

\* delete_quiz: query, delete, commit, taken as one transaction.
DeleteQuiz(quiz_id) ==
    /\ LET record == FirstById(quiz_id)
       IN  IF record = None
           THEN /\ \E d \in StrOfException(HTTPException(404, <<"Quiz not found">>)) :
                     lastResp' = [op |-> "delete_quiz", quiz_id |-> quiz_id,
                                  record |-> record,
                                  resp |-> ErrorResponse(HTTPException(500, d))]
                /\ UNCHANGED <<store, deletedUrls>>
           ELSE /\ store' = store \ {record}
                /\ deletedUrls' = deletedUrls \cup {record.url}
                /\ lastResp' = [op |-> "delete_quiz", quiz_id |-> quiz_id,
                                record |-> record,
                                resp |-> [status |-> 200,
                                          body |-> [message |-> "Quiz deleted successfully"]]]
    /\ UNCHANGED <<nextId, req, genVars>>

Init == GenInit /\ ApiInit

Next ==
    \/ \E r \in Requests : GeneratePrecheck(r)
    \/ \E r \in Requests : GenerateScrape(r)
    \/ \E r \in Requests : GenerateLlm(r)
    \/ \E r \in Requests : GenerateCommit(r)
    \/ \E quiz_id \in QuizIds : GetQuizDetails(quiz_id)
    \/ \E quiz_id \in QuizIds : DeleteQuiz(quiz_id)

Spec == Init /\ [][Next]_vars

(***************************************************************************)
(* SpecGen: the functions above applied to bounded sets of model outcomes. *)
(***************************************************************************)

\* Bounds of the enumerated model responses.
MaxLen == 6       \* longest list of plain candidates
MaxPrefix == 2    \* plain candidates in front of one varied candidate

\* Values a model may put in options / answer: texts with and without
\* surrounding whitespace, and the non-string scalars of JSON.
Vals ==
    {JStr(<<"A">>), JStr(<<" ", "A", " ">>), JStr(<<"1">>),
     JInt(1), JFloat(1), JBool(TRUE)}

Candidate(question, options, answer, explanation) ==
    JDict([question |-> question, options |-> options, answer |-> answer,
           explanation |-> explanation])

\* Candidates whose first two options and answer range over Vals.
VariedCandidates ==
    {Candidate(JStr(<<"Q", " ">>),
               JList(<<o1, o2, JStr(<<"C">>), JStr(<<"D">>)>>),
               ans, JStr(<<"E">>)) : o1 \in Vals, o2 \in Vals, ans \in Vals}

\* Candidates of the other shapes validate_quiz_questions tells apart.
ShapedCandidates ==
    {JInt(3),
     JStr(<<"Q">>),
     JDict([question |-> JStr(<<"Q">>),
            options |-> JList(<<JStr(<<"A">>), JStr(<<"B">>), JStr(<<"C">>), JStr(<<"D">>)>>),
            answer |-> JStr(<<"A">>)]),
     Candidate(JStr(<<"Q">>), JStr(<<"A">>), JStr(<<"A">>), JStr(<<"E">>)),
     Candidate(JInt(12), JList(<<JNull, JStr(<<"B">>), JStr(<<"C">>), JStr(<<"D">>)>>),
               JNull, JStr(<<"\n", "E">>)),
     JDict([question |-> JStr(<<"Q">>),
            options |-> JList(<<JStr(<<"A">>), JStr(<<"B">>), JStr(<<"C">>), JStr(<<"D">>)>>),
            answer |-> JStr(<<"D">>),
            difficulty |-> JStr(<<"extreme">>),
            explanation |-> JStr(<<"E">>)]),
     JDict([question |-> JStr(<<"Q">>),
            options |-> JList(<<JStr(<<"A">>), JStr(<<"B">>), JStr(<<"C">>), JStr(<<"D">>)>>),
            answer |-> JStr(<<"D">>),
            difficulty |-> JInt(2),
            explanation |-> JStr(<<"E">>)])}

\* Plain candidates: two valid ones and one with three options.
PlainCandidates ==
    {JDict([question |-> JStr(<<"Q", "1">>),
            options |-> JList(<<JStr(<<"A">>), JStr(<<"B">>), JStr(<<"C">>), JStr(<<"D">>)>>),
            answer |-> JStr(<<"B">>),
            difficulty |-> JStr(<<"hard">>),
            explanation |-> JStr(<<"E", "1">>)]),
     Candidate(JStr(<<" ", "Q", "2">>),
               JList(<<JStr(<<"A", " ">>), JStr(<<"B">>), JStr(<<"C">>), JStr(<<"D">>)>>),
               JStr(<<"A", " ">>), JStr(<<"E", "2", " ">>)),
     Candidate(JStr(<<"Q", "3">>),
               JList(<<JStr(<<"A">>), JStr(<<"B">>), JStr(<<"C">>)>>),
               JStr(<<"A">>), JStr(<<"E", "3">>))}

SeqsUpTo(S, n) == UNION {[1..k -> S] : k \in 0..n}

QuizLists ==
    SeqsUpTo(PlainCandidates, MaxLen)
    \cup {p \o <<c>> : p \in SeqsUpTo(PlainCandidates, MaxPrefix),
                       c \in VariedCandidates \cup ShapedCandidates}

\* Parsed values that are no list.
NonLists ==
    {JInt(5), JFloat(2), JBool(FALSE), JNull, JStr(<<"n", "o">>),
     CHOOSE c \in PlainCandidates : "difficulty" \in DOMAIN c.d}

FencedLists == SeqsUpTo(PlainCandidates, 1)

QuizTexts ==
    {Text("none", Json(JList(l))) : l \in QuizLists}
    \cup {Text("none", Json(v)) : v \in NonLists}
    \cup {Text(f, Json(JList(l))) : f \in {"json", "bare"}, l \in FencedLists}
    \cup {Text(f, Garbage) : f \in {"none", "json", "bare"}}

QuizOutcomes == {Failed} \cup {Answered(x) : x \in QuizTexts}

TopicTexts ==
    {Text("none", Json(JList(<<JStr(<<" ", "T", "1">>), JStr(<<" ">>), JStr(<<"T", "2">>)>>))),
     Text("json", Json(JList(<<JStr(<<"T", "1">>), JInt(1)>>))),
     Text("none", Json(JInt(4))),
     Text("none", Garbage)}

TopicOutcomes == {Failed} \cup {Answered(x) : x \in TopicTexts}

MaxTopicLen == 8  \* longest list of topic names

\* Topic names a model may return: plain, padded with whitespace, blank.
TopicNames == {JStr(<<"T">>), JStr(<<" ", "U", "\n">>), JStr(<<" ">>)}

\* What a model may put in the list besides a non-blank string.
OddTopics == {JStr(<<>>), JInt(1), JNull, JList(<<JStr(<<"T">>)>>)}

TopicLists ==
    SeqsUpTo(TopicNames, MaxTopicLen)
    \cup {p \o <<x>> : p \in SeqsUpTo(TopicNames, MaxPrefix), x \in OddTopics}
    \cup {<<x>> \o p : p \in SeqsUpTo(TopicNames, MaxPrefix), x \in OddTopics}

RelatedTopicsOutcomes ==
    TopicOutcomes
    \cup {Answered(Text("none", Json(JList(l)))) : l \in TopicLists}
    \cup {Answered(Text(f, Json(JList(l)))) :
             f \in {"json", "bare"}, l \in SeqsUpTo(TopicNames, 1)}
    \cup {Answered(Text("none", Json(v))) : v \in NonLists}

\* Requested counts: the accepted range and one value on each side of it.
RequestedCounts == (MinQuestions - 1)..(MaxQuestions + 1)

apiVars == <<store, nextId, req, lastResp, deletedUrls>>

GenerateQuizWithLlm ==
    /\ genCall = NoCall
    /\ \E quiz_llm \in QuizOutcomes, topics_llm \in TopicOutcomes,
          num_questions \in RequestedCounts :
            /\ genCall' = [op |-> "generate_quiz_with_llm",
                           quiz_llm |-> quiz_llm,
                           topics_llm |-> topics_llm,
                           num_questions |-> num_questions]
            /\ genRet' = generate_quiz_with_llm(quiz_llm, topics_llm, num_questions)
    /\ UNCHANGED apiVars

ValidateQuizQuestions ==
    /\ genCall = NoCall
    /\ \E l \in QuizLists :
            /\ genCall' = [op |-> "validate_quiz_questions", questions |-> JList(l)]
            /\ genRet' = validate_quiz_questions(JList(l))
    /\ UNCHANGED apiVars

\* validate_quiz_questions applied to its own result
Revalidate ==
    /\ genCall.op = "validate_quiz_questions"
    /\ genRet.exc = "none"
    /\ genCall' = [op |-> "revalidate", questions |-> JList(genRet.val),
                   first |-> genRet.val]
    /\ genRet' = validate_quiz_questions(JList(genRet.val))
    /\ UNCHANGED apiVars

GenerateRelatedTopics ==
    /\ genCall = NoCall
    /\ \E topics_llm \in RelatedTopicsOutcomes :
            /\ genCall' = [op |-> "generate_related_topics", topics_llm |-> topics_llm]
            /\ genRet' = generate_related_topics(topics_llm)
    /\ UNCHANGED apiVars

GenNext ==
    \/ GenerateQuizWithLlm
    \/ ValidateQuizQuestions
    \/ Revalidate
    \/ GenerateRelatedTopics

SpecGen == Init /\ [][GenNext]_vars

(***************************************************************************)
(* scraper.py: extract_entities.  SpecScrape applies it to bounded pages.  *)
(*                                                                         *)
(* A page is what the function reads of the soup: whether the div          *)
(* mw-content-text exists, and the <a> elements inside it in document      *)
(* order.  A href is a sequence of pieces in which each of the words the   *)
(* code searches for is a piece of its own; a link text is a sequence of   *)
(* characters.                                                             *)
(***************************************************************************)

LinkLimit == 20
PerCategory == 5
NameLimit == 30

Anchor(href, text) == [href |-> href, text |-> text]

\* href=re.compile(r'^/wiki/')
IsInternal(a) == a.href # <<>> /\ a.href[1] = "/wiki/"

\* word in href
Contains(href, word) == \E i \in 1..Len(href) : href[i] = word

OrganizationWords == {"University", "College", "Institute"}
LocationWords == {"City", "Country", "Region", "State"}

\* link.get_text().strip()
LinkText(a) == Strip(a.text)

\* the branch of the if / elif / elif chain a link takes
Category(a) ==
    IF \E w \in OrganizationWords : Contains(a.href, w) THEN "organizations"
    ELSE IF \E w \in LocationWords : Contains(a.href, w) THEN "locations"
    ELSE IF LinkText(a) # <<>> /\ Len(LinkText(a)) < NameLimit THEN "people"
    ELSE "none"

\* entities[category] after the loop: the texts appended, in link order
RECURSIVE Appended(_, _)
Appended(links, category) ==
    IF links = <<>> THEN <<>>
    ELSE (IF Category(Head(links)) = category THEN <<LinkText(Head(links))>>
          ELSE <<>>) \o Appended(Tail(links), category)

\* list(set(v))[:k]: the order in which a set of str is listed depends on the
\* hash seed of the process, so every k-prefix of every ordering is possible.
ListOfSetTo(v, k) ==
    LET S == {v[i] : i \in 1..Len(v)}
        n == Min(k, Cardinality(S))
    IN  {f \in [1..n -> S] : \A a, b \in 1..n : a # b => f[a] # f[b]}

NoEntities == [people |-> <<>>, organizations |-> <<>>, locations |-> <<>>]

\* extract_entities that classifies every link, not the first 20
extract_entities_nolimit(page) ==
    IF ~page.content_div THEN {NoEntities}
    ELSE LET links == SelectSeq(page.anchors, IsInternal)
         IN  {[people |-> p, organizations |-> o, locations |-> l] :
                 p \in ListOfSetTo(Appended(links, "people"), PerCategory),
                 o \in ListOfSetTo(Appended(links, "organizations"), PerCategory),
                 l \in ListOfSetTo(Appended(links, "locations"), PerCategory)}

\* The results extract_entities can return for a page.  Nothing in the try
\* block raises on a parsed page, so the except clause adds no result.
extract_entities(page) ==
    IF ~page.content_div THEN {NoEntities}
    ELSE LET links == PySliceTo(SelectSeq(page.anchors, IsInternal), LinkLimit)
         IN  {[people |-> p, organizations |-> o, locations |-> l] :
                 p \in ListOfSetTo(Appended(links, "people"), PerCategory),
                 o \in ListOfSetTo(Appended(links, "organizations"), PerCategory),
                 l \in ListOfSetTo(Appended(links, "locations"), PerCategory)}

MaxLinks == 3     \* longest page of freely chosen links

Chars(n, c) == [i \in 1..n |-> c]

\* The links a page is built from: one per branch of the chain, links that
\* match more than one rule, texts at the length limit, a text shared by
\* links of different destinations, and an external link.
LinkKinds ==
    {Anchor(<<"/wiki/", "University", "_of_", "City">>, <<"U", "C">>),
     Anchor(<<"/wiki/", "Imperial_", "College">>, <<>>),
     Anchor(<<"/wiki/", "Mexico_", "City">>, <<"U", "C">>),
     Anchor(<<"/wiki/", "United_", "State", "s">>, <<" ", "U", "S", " ">>),
     Anchor(<<"/wiki/", "Ada">>, <<"A", "d", "a">>),
     Anchor(<<"/wiki/", "Ada_Lovelace">>, <<"\n", "A", "d", "a">>),
     Anchor(<<"/wiki/", "university">>, <<"U", "C">>),
     Anchor(<<"/wiki/", "Long">>, Chars(NameLimit, "x")),
     Anchor(<<"/wiki/", "Short">>, Chars(NameLimit - 1, "x")),
     Anchor(<<"/wiki/", "Blank">>, <<" ">>),
     Anchor(<<"https://example.org/wiki/", "City">>, <<"E">>)}

\* k links to k articles whose texts cycle through PerCategory + 1 names
Filler(k) ==
    [i \in 1..k |-> Anchor(<<"/wiki/", "N", DigitChar(i % (PerCategory + 1))>>,
                           <<"N", DigitChar(i % (PerCategory + 1))>>)]

ExternalLinks == {a \in LinkKinds : ~IsInternal(a)}

\* Pages of few links, and pages whose last link falls before, on and after
\* the limit of 20, with and without an external link in front.
AnchorLists ==
    SeqsUpTo(LinkKinds, MaxLinks)
    \cup {e \o Filler(k) \o <<x>> :
             e \in {<<>>} \cup {<<a>> : a \in ExternalLinks},
             k \in (LinkLimit - 2)..(LinkLimit + 1),
             x \in LinkKinds}

Pages ==
    {[content_div |-> TRUE, anchors |-> l] : l \in AnchorLists}
    \cup {[content_div |-> FALSE, anchors |-> <<>>]}

ExtractEntities ==
    /\ genCall = NoCall
    /\ \E page \in Pages :
        \E entities \in extract_entities(page) :
            /\ genCall' = [op |-> "extract_entities", page |-> page]
            /\ genRet' = Return(entities)
    /\ UNCHANGED apiVars

ScrapeNext == ExtractEntities

SpecScrape == Init /\ [][ScrapeNext]_vars

(***************************************************************************)
(* Properties of quiz_generator.py, stated for SpecGen.                   *)
(***************************************************************************)

Generated == genCall.op = "generate_quiz_with_llm"

\* The value the body of a response text encodes; [] when it encodes none.
BodyValue(text) == IF text.body.json THEN text.body.value ELSE JList(<<>>)

Clamped(n) == IF n < 5 THEN 5 ELSE IF n > 10 THEN 10 ELSE n

\* exactly 4 options, and the answer is one of them
FourOptionsWithAnswer(q) ==
    /\ Len(q.d.options.items) = 4
    /\ \E i \in 1..Len(q.d.options.items) : q.d.options.items[i] = q.d.answer

\* C1: every question of every quiz generate_quiz_with_llm returns has exactly
\* 4 options and an answer equal to one of them.
C1_EveryQuestionHasFourOptionsAndItsAnswer ==
    Generated =>
        \A i \in 1..Len(genRet.val.quiz) : FourOptionsWithAnswer(genRet.val.quiz[i])

\* C2: when the model call succeeds and its text parses to a list, the quiz has
\* exactly N questions (N the count in [5,10]): the first min(N, v) are the v
\* validated candidates in model order, the rest are the fallback placeholder.
C2_ValidatedThenPadded ==
    (Generated /\ genCall.quiz_llm.ok /\ BodyValue(genCall.quiz_llm.text).t = "list") =>
        LET n == Clamped(genCall.num_questions)
            v == ValidateLoop(BodyValue(genCall.quiz_llm.text).items)
            quiz == genRet.val.quiz
        IN  /\ genRet.exc = "none"
            /\ n \in 5..10
            /\ Len(quiz) = n
            /\ \A i \in 1..n :
                  quiz[i] = IF i <= Len(v) THEN v[i] ELSE generate_fallback_quiz[1]

\* C2 witness: 2 valid candidates and N = 7 gave 2 real questions and 5 placeholders.
C2_Witness ==
    /\ Generated /\ genCall.quiz_llm.ok
    /\ BodyValue(genCall.quiz_llm.text).t = "list"
    /\ genCall.num_questions = 7
    /\ Len(BodyValue(genCall.quiz_llm.text).items) = 3
    /\ Len(ValidateLoop(BodyValue(genCall.quiz_llm.text).items)) = 2
    /\ Len(genRet.val.quiz) = 7
    /\ genRet.val.quiz[2] # generate_fallback_quiz[1]
    /\ \A i \in 3..7 : genRet.val.quiz[i] = generate_fallback_quiz[1]

\* C3 as stated: for every outcome of the generation step the quiz has between
\* 5 and 10 questions, never fewer than the clamped requested count.
C3_LengthAlwaysClamped ==
    Generated =>
        /\ Len(genRet.val.quiz) >= Clamped(genCall.num_questions)
        /\ Len(genRet.val.quiz) \in 5..10

\* The quiz call produced something the validation loop can iterate over.
QuizIterable ==
    /\ genCall.quiz_llm.ok
    /\ BodyValue(genCall.quiz_llm.text).t \in {"list", "dict", "str"}

\* C3 amended: the quiz has exactly the clamped requested count of questions
\* when the model call succeeds and its text is unparseable or parses to a list,
\* object or string; when the call fails or the text parses to a number, boolean
\* or null the quiz is the single fallback question.
C3_LengthClampedOrSingleFallback ==
    Generated =>
        IF QuizIterable
        THEN /\ Len(genRet.val.quiz) = Clamped(genCall.num_questions)
             /\ Len(genRet.val.quiz) \in 5..10
        ELSE genRet.val.quiz = generate_fallback_quiz /\ Len(genRet.val.quiz) = 1

\* C3 witness: a failed model call returned a one-question quiz.
C3_Witness ==
    /\ Generated
    /\ ~genCall.quiz_llm.ok
    /\ genCall.num_questions = 7
    /\ Len(genRet.val.quiz) = 1

\* C4: generate_quiz_with_llm never raises; it returns a non-empty quiz list and
\* a related_topics list, whatever the two model calls did.
C4_NeverRaises ==
    Generated =>
        /\ genRet.exc = "none"
        /\ Len(genRet.val.quiz) >= 1
        /\ \A i \in 1..Len(genRet.val.quiz) : genRet.val.quiz[i].t = "dict"
        /\ Len(genRet.val.related_topics) >= 0
        /\ \A i \in 1..Len(genRet.val.related_topics) :
              genRet.val.related_topics[i].t = "str"

\* C4 witness: both model calls failed and a result was returned.
C4_Witness ==
    /\ Generated
    /\ ~genCall.quiz_llm.ok
    /\ ~genCall.topics_llm.ok
    /\ genRet.exc = "none"
    /\ Len(genRet.val.quiz) = 1
    /\ Len(genRet.val.related_topics) = 2

\* C5: validate_quiz_questions is idempotent: applied to its own result it
\* returns that result unchanged.
C5_ValidateIdempotent ==
    genCall.op = "revalidate" => (genRet.exc = "none" /\ genRet.val = genCall.first)

(***************************************************************************)
(* Properties of the handlers of main.py, stated for Spec.                *)
(***************************************************************************)

\* request r takes this step
Steps(r) == req'[r] # req[r]

\* C6: a generate-quiz request whose URL does not start with
\* "https://en.wikipedia.org/wiki/" is answered with status 400 and detail
\* "Invalid Wikipedia URL", with no cache query, fetch, model call or new record.
C6_InvalidUrlRejectedWith400 ==
    [][\A r \in Requests :
          (req[r].pc = "idle" /\ Steps(r) /\ ~StartsWith(req'[r].url, WikiPrefix)) =>
              /\ req'[r].pc = "done"
              /\ req'[r].resp.status = 400
              /\ req'[r].resp.detail = <<"Invalid Wikipedia URL">>
              /\ req'[r].existing = None
              /\ req'[r].scrape_calls = 0
              /\ req'[r].llm_calls = 0
              /\ store' = store]_vars

\* C7: for a quiz id with no record in the store, get_quiz_details and
\* delete_quiz answer with status 404 and detail "Quiz not found" and leave the
\* store unchanged.
C7_MissingQuizAnswered404 ==
    [][(lastResp' # lastResp /\ lastResp'.record = None) =>
          /\ lastResp'.op \in {"get_quiz_details", "delete_quiz"}
          /\ lastResp'.resp.status = 404
          /\ lastResp'.resp.detail = <<"Quiz not found">>
          /\ store' = store]_vars

\* C8: a generate-quiz request for a valid URL that has a stored record returns
\* that record, performs neither a scrape nor a model call, and leaves every
\* record of the store (and the id sequence) unchanged.
C8_CacheHitReturnsStoredRecord ==
    [][\A r \in Requests :
          (/\ req[r].pc = "idle" /\ Steps(r)
           /\ StartsWith(req'[r].url, WikiPrefix)
           /\ \E rec \in store : rec.url = req'[r].url) =>
              LET rec == CHOOSE x \in store : x.url = req'[r].url
              IN  /\ req'[r].pc = "done"
                  /\ req'[r].resp.status = 200
                  /\ req'[r].resp.body.id = rec.id
                  /\ req'[r].resp.body.url = rec.url
                  /\ req'[r].resp.body.title = rec.title
                  /\ req'[r].resp.body.quiz = rec.quiz
                  /\ req'[r].resp.body.related_topics = rec.related_topics
                  /\ req'[r].scrape_calls = 0
                  /\ req'[r].llm_calls = 0
                  /\ store' = store
                  /\ nextId' = nextId]_vars

\* C8 witness: a request was answered from the stored record of its URL.
C8_Witness ==
    \E r \in Requests :
        /\ req[r].pc = "done"
        /\ req[r].existing # None
        /\ req[r].existing \in store
        /\ req[r].existing.url = req[r].url
        /\ req[r].resp.status = 200
        /\ req[r].resp.body.id = req[r].existing.id
        /\ req[r].scrape_calls = 0

\* requests for url that ran the scrape-and-generate pipeline
RanPipeline(url) ==
    {r \in Requests : req[r].url = url /\ req[r].scrape_calls > 0 /\ req[r].llm_calls > 0}

\* C9: under every interleaving of generate-quiz requests for the same valid
\* URL, the pipeline is executed at most once for that URL, as long as its
\* record is not deleted in between.
C9_PipelineAtMostOncePerUrl ==
    \A url \in ValidUrls :
        url \notin deletedUrls => Cardinality(RanPipeline(url)) <= 1

FetchFailed(q) == q.fetch # None /\ q.fetch.kind # "page"

\* C10: when the fetch step of a generate-quiz request fails, the request ends
\* with an error carrying a descriptive message, the model is never invoked, no
\* result is returned, and no step of the request changed the store.
C10_FetchFailureIsFatal ==
    [][\A r \in Requests :
          /\ (Steps(r) /\ req'[r].pc = "scrape") => store' = store
          /\ (Steps(r) /\ FetchFailed(req'[r])) =>
                /\ req[r].pc = "scrape"
                /\ req'[r].pc = "done"
                /\ req'[r].resp.status = 500
                /\ "body" \notin DOMAIN req'[r].resp
                /\ Len(req'[r].resp.detail) = 2
                /\ req'[r].resp.detail[1] \in
                      {"Failed to fetch URL: ", "Error processing Wikipedia page: "}
                /\ req'[r].llm_calls = 0
                /\ req'[r].quiz_data = None
                /\ store' = store
                /\ nextId' = nextId]_vars

\* C10 witness: a fetch failed while the store held a record, and the request
\* ended with the 500.
C10_Witness ==
    \E r \in Requests :
        /\ FetchFailed(req[r])
        /\ req[r].pc = "done"
        /\ req[r].resp.status = 500
        /\ req[r].llm_calls = 0
        /\ store # {}

(***************************************************************************)
(* Properties of generate_related_topics, stated for SpecGen.              *)
(***************************************************************************)

\* a related-topics list was returned: by generate_related_topics itself or
\* inside the result of generate_quiz_with_llm
TopicsReturned == genCall.op \in {"generate_related_topics", "generate_quiz_with_llm"}

ReturnedTopics ==
    IF genCall.op = "generate_related_topics" THEN genRet.val
    ELSE genRet.val.related_topics

NonBlank(s) == \E i \in 1..Len(s) : s[i] \notin {" ", "\n", "\t"}

\* s between its first and its last character that is no whitespace
Trimmed(s) ==
    LET solid == {i \in 1..Len(s) : s[i] \notin {" ", "\n", "\t"}}
        first == CHOOSE i \in solid : \A j \in solid : i <= j
        last == CHOOSE i \in solid : \A j \in solid : j <= i
    IN  [k \in 1..(last - first + 1) |-> s[first + k - 1]]

\* the k-th position of items that holds a non-blank string
KeptIndex(items, k) ==
    CHOOSE i \in 1..Len(items) :
        /\ NonBlank(items[i].s)
        /\ Cardinality({j \in 1..i : NonBlank(items[j].s)}) = k

\* C11: the related-topics list is at most 7 non-empty trimmed strings: for a
\* parsed list of strings (an unparseable text parses to the empty list) it is
\* those strings trimmed, the empty ones dropped, in model order, cut to the
\* first 7; for any other parsed value and for a failed model call it is the
\* fixed list "Further Reading", "Related Articles".
C11_RelatedTopics ==
    TopicsReturned =>
        LET llm == genCall.topics_llm
            out == ReturnedTopics
            parsed == BodyValue(llm.text)
        IN  /\ genRet.exc = "none"
            /\ Len(out) <= 7
            /\ \A i \in 1..Len(out) :
                  /\ out[i].t = "str"
                  /\ out[i].s # <<>>
                  /\ out[i].s[1] \notin {" ", "\n", "\t"}
                  /\ out[i].s[Len(out[i].s)] \notin {" ", "\n", "\t"}
            /\ IF /\ llm.ok
                  /\ parsed.t = "list"
                  /\ \A i \in 1..Len(parsed.items) : parsed.items[i].t = "str"
               THEN LET kept == {i \in 1..Len(parsed.items) : NonBlank(parsed.items[i].s)}
                        n == IF Cardinality(kept) < 7 THEN Cardinality(kept) ELSE 7
                    IN  /\ Len(out) = n
                        /\ \A k \in 1..n :
                              out[k].s = Trimmed(parsed.items[KeptIndex(parsed.items, k)].s)
               ELSE out = <<JStr(<<"Further Reading">>), JStr(<<"Related Articles">>)>>

\* C11 witness: 8 names, one blank and one padded among the first 7, gave the
\* 7 non-blank ones, trimmed, the 8th included.
C11_Witness ==
    /\ genCall.op = "generate_related_topics"
    /\ genCall.topics_llm.ok
    /\ BodyValue(genCall.topics_llm.text).t = "list"
    /\ LET items == BodyValue(genCall.topics_llm.text).items
       IN  /\ Len(items) = 8
           /\ \A i \in 1..8 : items[i].t = "str"
           /\ ~NonBlank(items[2].s)
           /\ items[8] = JStr(<<" ", "U", "\n">>)
           /\ \A i \in (1..8) \ {2} : NonBlank(items[i].s)
    /\ Len(genRet.val) = 7
    /\ genRet.val[7] = JStr(<<"U">>)

(***************************************************************************)
(* Properties of extract_entities, stated for SpecScrape.                  *)
(***************************************************************************)

Extracted == genCall.op = "extract_entities"

\* the first 20 internal links of the page, in document order
FirstLinks ==
    LET internal == SelectSeq(genCall.page.anchors,
                              LAMBDA a : a.href # <<>> /\ a.href[1] = "/wiki/")
    IN  [i \in 1..(IF Len(internal) < 20 THEN Len(internal) ELSE 20) |-> internal[i]]

\* the visible text of a link: its text without surrounding whitespace
VisibleText(a) == IF NonBlank(a.text) THEN Trimmed(a.text) ELSE <<>>

HasAny(href, words) == \E i \in 1..Len(href) : href[i] \in words

\* the one category the ordered rules give a link
RuleCategory(a) ==
    CASE HasAny(a.href, {"University", "College", "Institute"}) -> "organizations"
      [] /\ ~HasAny(a.href, {"University", "College", "Institute"})
         /\ HasAny(a.href, {"City", "Country", "Region", "State"}) -> "locations"
      [] /\ ~HasAny(a.href, {"University", "College", "Institute"})
         /\ ~HasAny(a.href, {"City", "Country", "Region", "State"})
         /\ VisibleText(a) # <<>>
         /\ Len(VisibleText(a)) < 30 -> "people"
      [] OTHER -> "none"

\* C12: extract_entities returns a map with the categories people,
\* organizations and locations; each holds at most 5 entries, no two equal,
\* and every entry is the text of one of the first 20 internal links whose
\* category, by the ordered rules, is the one the entry is in.
C12_EntitiesFromFirstLinks ==
    Extracted =>
        /\ genRet.exc = "none"
        /\ DOMAIN genRet.val = {"people", "organizations", "locations"}
        /\ \A c \in DOMAIN genRet.val :
              LET entries == genRet.val[c]
              IN  /\ Len(entries) <= 5
                  /\ \A i, j \in 1..Len(entries) : i # j => entries[i] # entries[j]
                  /\ \A i \in 1..Len(entries) :
                        \E k \in 1..Len(FirstLinks) :
                            /\ VisibleText(FirstLinks[k]) = entries[i]
                            /\ RuleCategory(FirstLinks[k]) = c

\* C12 witness: a page of more than 20 internal links with more than 5 names
\* gave 5 people; its 21st link, to a university, gave no organization.
C12_Witness ==
    /\ Extracted
    /\ Len(SelectSeq(genCall.page.anchors, IsInternal)) = 21
    /\ Len(FirstLinks) = 20
    /\ Contains(genCall.page.anchors[Len(genCall.page.anchors)].href, "University")
    /\ Len(genRet.val.people) = 5
    /\ genRet.val.organizations = <<>>

====
